---- MODULE Spec2Model ----
(***************************************************************************)
(* A model of surveyor's option-handling core (help.py): the backend       *)
(* registry EDR_DEETS, credential_builder, product_arg_builder,            *)
(* build_survey with its logger, and the two structural validators         *)
(* check_credentials_structure and check_product_args_structure.           *)
(*                                                                         *)
(* Python values are tagged records, one shape per Python type, so that    *)
(* None, "", [] and {} are four different values, as they are in Python:   *)
(*   None            [type |-> "NoneType"]                                 *)
(*   bool            [type |-> "bool", b |-> ...]                          *)
(*   int             [type |-> "int",  n |-> ...]                          *)
(*   str             [type |-> "str",  chars |-> <<"a", "b">>]             *)
(*   str literal     [type |-> "str",  text |-> "..."]   (a message the    *)
(*                    code only passes on, never inspects)                 *)
(*   list            [type |-> "list", items |-> << ... >>]                *)
(*   list of names   [type |-> "list", names |-> << ... >>]                *)
(*   set of names    [type |-> "set",  elems |-> { ... }]                  *)
(*   dict            [type |-> "dict", d |-> [key |-> value]]              *)
(* A dict's keys are TLA+ strings.  A call ends in one of three ways:      *)
(* Return(v), Exit(msg) (sys.exit) or Raise(exc) (an uncaught exception).  *)
(***************************************************************************)
EXTENDS Integers, Sequences, FiniteSets, TLC

VARIABLES args, edr, creds, product_args, fs, out

vars == <<args, edr, creds, product_args, fs, out>>

(* ------------------------------ bounds --------------------------------- *)

\* The largest number of fields of a credential mapping handed to
\* check_credentials_structure.
MaxCredFields == 3

\* The largest number of raw options (the backend among them) that
\* build_survey's caller sets away from their defaults.
MaxOptions == 4

(* --------------------------- Python values ----------------------------- *)

None == [type |-> "NoneType"]

Bool(b) == [type |-> "bool", b |-> b]

PyInt(n) == [type |-> "int", n |-> n]

Str(c) == [type |-> "str", chars |-> c]

Text(t) == [type |-> "str", text |-> t]

List(xs) == [type |-> "list", items |-> xs]

Names(xs) == [type |-> "list", names |-> xs]

NameSet(S) == [type |-> "set", elems |-> S]

Dict(f) == [type |-> "dict", d |-> f]

EmptyDict == [k \in {} |-> None]

\* Python's truth value of v (what `if v:` and `not v` test).
Truthy(v) ==
    IF v.type = "NoneType" THEN FALSE
    ELSE IF v.type = "bool" THEN v.b
    ELSE IF v.type = "int" THEN v.n # 0
    ELSE IF v.type = "str" THEN
        IF "chars" \in DOMAIN v THEN v.chars # <<>> ELSE v.text # ""
    ELSE IF v.type = "list" THEN
        IF "items" \in DOMAIN v THEN v.items # <<>> ELSE v.names # <<>>
    ELSE IF v.type = "set" THEN v.elems # {}
    ELSE DOMAIN v.d # {}

\* d[k] = v on a dict.
SetItem(d, k, v) == [x \in DOMAIN d \cup {k} |-> IF x = k THEN v ELSE d[x]]

\* d.update(e) on dicts.
Update(d, e) ==
    [x \in DOMAIN d \cup DOMAIN e |-> IF x \in DOMAIN e THEN e[x] ELSE d[x]]

\* {k: v for k, v in d.items() if v != None}
DropNone(d) == [k \in {x \in DOMAIN d : d[x] # None} |-> d[k]]

Return(v) == [kind |-> "return", value |-> v]

Exit(msg) == [kind |-> "exit", msg |-> msg]

Raise(exc) == [kind |-> "raise", exc |-> exc]

(* ------------------------------ strings -------------------------------- *)

UpperCase ==
    << "A", "B", "C", "D", "E", "F", "G", "H", "I", "J", "K", "L", "M",
       "N", "O", "P", "Q", "R", "S", "T", "U", "V", "W", "X", "Y", "Z" >>

LowerCase ==
    << "a", "b", "c", "d", "e", "f", "g", "h", "i", "j", "k", "l", "m",
       "n", "o", "p", "q", "r", "s", "t", "u", "v", "w", "x", "y", "z" >>

LowerChar(c) ==
    IF \E i \in 1..Len(UpperCase) : UpperCase[i] = c
    THEN LowerCase[CHOOSE i \in 1..Len(UpperCase) : UpperCase[i] = c]
    ELSE c

\* str.lower()
Lower(s) == Str([i \in 1..Len(s.chars) |-> LowerChar(s.chars[i])])

(* ------------------------------ registry ------------------------------- *)

cbc == Str(<<"c", "b", "c">>)

cbr == Str(<<"c", "b", "r">>)

cortex == Str(<<"c", "o", "r", "t", "e", "x">>)

dfe == Str(<<"d", "f", "e">>)

s1 == Str(<<"s", "1">>)

\* A backend id the registry does not hold.
xdr == Str(<<"x", "d", "r">>)

Registered == {cbc, cbr, cortex, dfe, s1}

EdrIds == Registered \cup {xdr}

EDR_DEETS ==
    [e \in Registered |->
        IF e = cbc THEN
            [full_name |-> Text("VMware Carbon Black Cloud Enterprise EDR (CBC)"),
             required_credentials |-> Text("VMware Carbon Black Cloud Enterprise EDR requires a URL, token, and org_key or a credential file located following the documentation at: https://github.com/redcanaryco/surveyor/wiki/Getting-started"),
             product_arguments |-> Names(<<"device_group", "device_policy">>)]
        ELSE IF e = cbr THEN
            [full_name |-> Text("VMware Carbon Black EDR (CBr)"),
             required_credentials |-> Text("VMware Carbon Black EDR requires a URL and token or a credential file located following the documentation at: https://github.com/redcanaryco/surveyor/wiki/Getting-started"),
             product_arguments |-> Names(<<"sensor_group">>)]
        ELSE IF e = cortex THEN
            [full_name |-> Text("Cortex XDR (Cortex)"),
             required_credentials |-> Text("Cortex XDR requires a URL, api_key, api_key_id, and auth_type or a credential file and profile to be passed"),
             product_arguments |-> None]
        ELSE IF e = dfe THEN
            [full_name |-> Text("Microsoft Defender for Endpoint (DFE)"),
             required_credentials |-> Text("Microsoft Defender for Endpoint requires a token or all of 'tenantId', 'appId', and 'appSecret', or a credential file and profile to be passed"),
             product_arguments |-> None]
        ELSE
            [full_name |-> Text("SentinelOne (S1)"),
             required_credentials |-> Text("SentinelOne requires a URL and token and one of the following site_ids, account_ids, or account_names, or a credential file and profile to be passed"),
             product_arguments |-> Names(<<"deep_visibility">>)]]

(* ------------------------- credential_builder -------------------------- *)

default == Str(<<"d", "e", "f", "a", "u", "l", "t">>)

standard == Str(<<"s", "t", "a", "n", "d", "a", "r", "d">>)

\* The Carbon Black mapping with the credentials file carried along when one
\* is supplied.
simple_creds_with_file(a) ==
    Dict(DropNone([profile |-> IF Truthy(a.profile) THEN a.profile ELSE default,
                   creds_file |-> IF Truthy(a.creds) THEN a.creds ELSE None]))

\* Lines 81-92: the mapping of the two Carbon Black backends.
simple_creds(a) ==
    Dict([profile |-> IF Truthy(a.profile) THEN a.profile ELSE default])

\* The test of line 94 passing as soon as one of the two is supplied.
lacks_file_and_profile(a) ==
    ~(Truthy(a.creds) \/ Truthy(a.profile)) /\ a.edr \in {cortex, dfe, s1}

\* Line 94: a backend that needs a credentials file and a profile lacks one.
lacks_file_or_profile(a) ==
    ~(Truthy(a.creds) /\ Truthy(a.profile)) /\ a.edr \in {cortex, dfe, s1}

credential_builder(a) ==
    IF a.edr = cbc THEN Return(simple_creds(a))
    ELSE IF a.edr = cbr THEN Return(simple_creds(a))
    ELSE IF lacks_file_or_profile(a) THEN
        Exit("Cortex, S1, and DFE need to be passed the location to a credentials file, and a profile")
    ELSE IF a.edr = cortex THEN
        Return(Dict([profile |-> a.profile,
                     auth_type |-> IF Truthy(a.auth_type) THEN Lower(a.auth_type) ELSE standard,
                     tenant_ids |-> IF Truthy(a.tenant_ids) THEN a.tenant_ids ELSE List(<<>>),
                     creds_file |-> a.creds]))
    ELSE IF a.edr = dfe THEN
        Return(Dict([profile |-> a.profile, creds_file |-> a.creds]))
    ELSE IF a.edr = s1 THEN
        Return(Dict([profile |-> a.profile,
                     site_ids |-> IF Truthy(a.site_ids) THEN a.site_ids ELSE List(<<>>),
                     account_ids |-> IF Truthy(a.account_ids) THEN a.account_ids ELSE List(<<>>),
                     account_names |-> IF Truthy(a.account_names) THEN a.account_names ELSE List(<<>>),
                     creds_file |-> a.creds]))
    ELSE Return(None)

(* --------------------- check_credentials_structure --------------------- *)

\* [k for k, v in creds.items() if v]
cred_check(c) == {k \in DOMAIN c : Truthy(c[k])}

\* f"{edr} is not a supported EDR"
NotSupported(e) ==
    Str(e.chars \o << " ", "i", "s", " ", "n", "o", "t", " ", "a", " ",
                      "s", "u", "p", "p", "o", "r", "t", "e", "d", " ",
                      "E", "D", "R" >>)

CheckResult(result, label, required) ==
    [result |-> result, edr |-> label, required_fields |-> required]

\* The backend-specific minimum field sets of lines 320-329.
DirectFields(e, cc) ==
    \/ e = cbc /\ {"url", "token", "org_key"} \subseteq cc
    \/ e = cbr /\ {"url", "token"} \subseteq cc
    \/ e = cortex /\ {"api_key", "url", "api_key_id", "auth_type"} \subseteq cc
    \/ e = dfe /\ ("token" \in cc \/ {"tenantId", "appId", "appSecret"} \subseteq cc)
    \/ e = s1 /\ {"url", "token"} \subseteq cc
              /\ {"site_ids", "account_ids", "account_names"} \cap cc # {}

\* The check without line 313's rule that a credentials file alone is enough
\* for cbc and cbr.
check_credentials_structure_no_file_shortcut(e, c) ==
    LET cc == cred_check(c) IN
    IF "creds_file" \in cc /\ "profile" \in cc THEN
        Return(CheckResult(TRUE, e,
            Text("A profile and path to a credentials file argument have been supplied")))
    ELSE IF DirectFields(e, cc) THEN
        Return(CheckResult(TRUE, e, EDR_DEETS[e].required_credentials))
    ELSE IF e \notin Registered THEN
        Return(CheckResult(FALSE, NotSupported(e), None))
    ELSE Return(CheckResult(FALSE, e, EDR_DEETS[e].required_credentials))

check_credentials_structure(e, c) ==
    LET cc == cred_check(c) IN
    IF e \in {cbc, cbr} /\ "creds_file" \in cc THEN
        Return(CheckResult(TRUE, e, EDR_DEETS[e].required_credentials))
    ELSE IF "creds_file" \in cc /\ "profile" \in cc THEN
        Return(CheckResult(TRUE, e,
            Text("A profile and path to a credentials file argument have been supplied")))
    ELSE IF DirectFields(e, cc) THEN
        Return(CheckResult(TRUE, e, EDR_DEETS[e].required_credentials))
    ELSE IF e \notin Registered THEN
        Return(CheckResult(FALSE, NotSupported(e), None))
    ELSE Return(CheckResult(FALSE, e, EDR_DEETS[e].required_credentials))

(* ------------------------------ raw options ---------------------------- *)

logs == Str(<<"l", "o", "g", "s">>)

\* The option set with nothing supplied: every option None, the flags False,
\* the log directory the one logger defaults to.  It holds no ioc_file.
DefaultArgs ==
    [edr |-> cbc, profile |-> None, creds |-> None, auth_type |-> None,
     tenant_ids |-> None, site_ids |-> None, account_ids |-> None,
     account_names |-> None,
     device_group |-> None, device_policy |-> None, sensor_group |-> None,
     dv |-> Bool(FALSE),
     iocfile |-> None, ioctype |-> None,
     output |-> None, prefix |-> None, no_file |-> Bool(FALSE),
     days |-> None, minutes |-> None,
     sigmarule |-> None, sigmadir |-> None,
     log_dir |-> logs, deffile |-> None, defdir |-> None,
     limit |-> None, hostname |-> None]

prod == Str(<<"p", "r", "o", "d">>)

creds_ini == Str(<<"c", ".", "i", "n", "i">>)

Advanced == Str(<<"A", "d", "v", "a", "n", "c", "e", "d">>)

OneId == List(<<Str(<<"7">>)>>)

\* The raw credential options credential_builder reads.
CredentialArgs ==
    { [DefaultArgs EXCEPT !.edr = e, !.profile = p, !.creds = c,
                          !.auth_type = t, !.tenant_ids = ti, !.site_ids = si,
                          !.account_ids = ai, !.account_names = an] :
        e \in EdrIds, p \in {None, Str(<<>>), prod},
        c \in {None, Str(<<>>), creds_ini}, t \in {None, Advanced},
        ti \in {None, List(<<>>), OneId}, si \in {None, OneId},
        ai \in {None, OneId}, an \in {None, OneId} }

CredFieldNames ==
    {"creds_file", "profile", "url", "token", "org_key", "api_key",
     "api_key_id", "auth_type", "tenantId", "appId", "appSecret",
     "tenant_ids", "site_ids", "account_ids", "account_names"}

ListFields == {"tenant_ids", "site_ids", "account_ids", "account_names"}

\* An empty and a non-empty value of field k.
FalsyValue(k) ==
    IF k \in ListFields THEN List(<<>>)
    ELSE IF k \in {"creds_file", "profile"} THEN Str(<<>>) ELSE None

TruthyValue(k) == IF k \in ListFields THEN OneId ELSE Str(<<"v">>)

\* The credential mappings of at most MaxCredFields fields.
CredentialMappings ==
    UNION { { [k \in K |-> IF k \in T THEN TruthyValue(k) ELSE FalsyValue(k)] :
                T \in SUBSET K } :
            K \in {X \in SUBSET CredFieldNames : Cardinality(X) <= MaxCredFields} }

(* ------------------------------ filesystem ----------------------------- *)

\* A filesystem: the paths that are regular files, the paths that are
\* directories, the text of each file, and for a directory the (root, files)
\* pairs os.walk yields for it, in the order the system lists them.
ioc_path == Str(<<"i", "n", "/", "i", "o", "c">>)

nil_path == Str(<<"i", "n", "/", "n", "i", "l">>)

no_path == Str(<<"i", "n", "/", "n", "o">>)

rule_path == Str(<<"r", ".", "y", "m", "l">>)

sig_dir == Str(<<"s", "i", "g">>)

defs_dir == Str(<<"d", "e", "f", "s">>)

def_path == Str(<<"x", ".", "j", "s", "o", "n">>)

\* os.path.dirname(__file__): the directory help.py is installed in.
InstallDir == Str(<<"/", "s">>)

\* A definition file shipped in the repository's definitions folder.
repo_def == Str(<<"/", "s", "/", "d", "e", "f", "i", "n", "i", "t", "i", "o", "n", "s", "/", "w", "i", "n", ".", "j", "s", "o", "n">>)

FsFiles ==
    {ioc_path.chars, nil_path.chars, rule_path.chars, def_path.chars,
                repo_def.chars,
                <<"s", "i", "g", "/", "a", ".", "y", "m", "l">>, <<"s", "i", "g", "/", "b", ".", "t", "x", "t">>, <<"s", "i", "g", "/", "s", "u", "b", "/", "c", ".", "y", "m", "l">>,
                <<"d", "e", "f", "s", "/", "d", ".", "j", "s", "o", "n">>}

FsWith(dirs) ==
    [files |-> FsFiles,
     dirs |-> {<<"i", "n">>, sig_dir.chars, <<"s", "i", "g", "/", "s", "u", "b">>, defs_dir.chars,
               <<"/", "s">>, <<"/", "s", "/", "d", "e", "f", "i", "n", "i", "t", "i", "o", "n", "s">>} \cup dirs,
     text |-> [f \in FsFiles |->
                 IF f = ioc_path.chars
                 THEN <<" ", "1", ".", "2", " ", "\n">> \o <<"a", " ", "b", "\n">> \o <<"\t", "c">>
                 ELSE <<>>],
     walk |-> [d \in {sig_dir.chars, defs_dir.chars} |->
                 IF d = sig_dir.chars
                 THEN << [root |-> <<"s", "i", "g">>, files |-> <<<<"a", ".", "y", "m", "l">>, <<"b", ".", "t", "x", "t">>>>],
                         [root |-> <<"s", "i", "g", "/", "s", "u", "b">>, files |-> <<<<"c", ".", "y", "m", "l">>>>] >>
                 ELSE << [root |-> <<"d", "e", "f", "s">>, files |-> <<<<"d", ".", "j", "s", "o", "n">>>>] >>]]

\* The filesystem before the run: with and without the log directory.
InitialFs == FsWith({})

InitialFsWithLogs == FsWith({logs.chars})

\* os.path.isfile, os.path.isdir, os.path.exists
isfile(f, p) == p.chars \in f.files

isdir(f, p) == p.chars \in f.dirs

exists(f, p) == isfile(f, p) \/ isdir(f, p)

Max(S) == CHOOSE x \in S : \A y \in S : y <= x

Min(S) == CHOOSE x \in S : \A y \in S : x <= y

Slashes(c) == {i \in 1..Len(c) : c[i] = "/"}

\* os.path.basename
basename(p) ==
    Str(IF Slashes(p.chars) = {} THEN p.chars
        ELSE SubSeq(p.chars, Max(Slashes(p.chars)) + 1, Len(p.chars)))

\* os.path.join of two components
join(a, b) ==
    IF b.chars # <<>> /\ b.chars[1] = "/" THEN b
    ELSE IF a.chars = <<>> \/ a.chars[Len(a.chars)] = "/" THEN Str(a.chars \o b.chars)
    ELSE Str(a.chars \o <<"/">> \o b.chars)

\* str.endswith
endswith(x, suffix) ==
    /\ Len(suffix.chars) <= Len(x.chars)
    /\ SubSeq(x.chars, Len(x.chars) - Len(suffix.chars) + 1, Len(x.chars)) = suffix.chars

\* os.path.splitext(p)[1]: from the last dot of the last component, unless
\* only dots come before it there.
splitext_ext(p) ==
    LET b == basename(p).chars
        dots == {i \in 1..Len(b) : b[i] = "."}
    IN  IF dots = {} THEN Str(<<>>)
        ELSE IF \E j \in 1..(Max(dots) - 1) : b[j] # "."
             THEN Str(SubSeq(b, Max(dots), Len(b)))
             ELSE Str(<<>>)

Whitespace == {" ", "\t", "\n", "\r", "\f"}

\* str.strip()
strip(x) ==
    LET keep == {i \in 1..Len(x.chars) : x.chars[i] \notin Whitespace}
    IN  IF keep = {} THEN Str(<<>>)
        ELSE Str(SubSeq(x.chars, Min(keep), Max(keep)))

\* file.readlines(): the text cut after each newline.
RECURSIVE readlines(_)
readlines(text) ==
    IF text = <<>> THEN <<>>
    ELSE LET nl == {i \in 1..Len(text) : text[i] = "\n"}
             cut == IF nl = {} THEN Len(text) ELSE Min(nl)
         IN  <<Str(SubSeq(text, 1, cut))>> \o readlines(SubSeq(text, cut + 1, Len(text)))

\* os.walk(top): the (root, files) pairs of the tree under top.
os_walk(f, top) == IF top.chars \in DOMAIN f.walk THEN f.walk[top.chars] ELSE <<>>

\* The files of a walk whose extension is ext, each joined to its root, in
\* walk order.
RECURSIVE walk_files(_, _)
walk_files(entries, ext) ==
    IF entries = <<>> THEN <<>>
    ELSE LET e == Head(entries)
             joined == [i \in 1..Len(e.files) |-> join(Str(e.root), Str(e.files[i]))]
             HasExt(x) == splitext_ext(x) = ext
         IN  SelectSeq(joined, HasExt) \o walk_files(Tail(entries), ext)

(* ------------------------- product_arg_builder ------------------------- *)

product_arg_builder(a) ==
    IF a.edr = cbc THEN
        Return(Dict(DropNone(
            [device_group |-> IF Truthy(a.device_group) THEN a.device_group ELSE None,
             device_policy |-> IF Truthy(a.device_policy) THEN a.device_policy ELSE None])))
    ELSE IF Truthy(a.sensor_group) THEN
        Return(Dict(DropNone([sensor_group |-> a.sensor_group])))
    ELSE IF Truthy(a.dv) THEN
        Return(Dict(DropNone([deep_visibility |-> Bool(TRUE)])))
    ELSE Return(Dict(EmptyDict))

(* -------------------- check_product_args_structure --------------------- *)

\* set(xs) of a list of names
SetOf(xs) == {xs[i] : i \in 1..Len(xs)}

check_product_args_structure(e, pa) ==
    IF e \notin Registered THEN Raise("KeyError")
    ELSE LET edr_details == EDR_DEETS[e]
             base == [result |-> FALSE, edr |-> edr_details.full_name,
                      required_fields |-> edr_details.product_arguments,
                      incompatible_arguments |-> None]
         IN  IF ~Truthy(Dict(pa)) THEN
                 Return([base EXCEPT !.result = TRUE,
                                     !.required_fields = Text("No arguments were supplied")])
             ELSE IF edr_details.product_arguments = None THEN Raise("TypeError")
             ELSE LET product_check == DOMAIN pa
                      required_fields_set == SetOf(edr_details.product_arguments.names)
                      incompatible_arguments == required_fields_set \ product_check
                      compatible_arguments == required_fields_set \cap product_check
                  IN  Return([base EXCEPT
                          !.result = (compatible_arguments # {}),
                          !.incompatible_arguments =
                              IF incompatible_arguments # {}
                              THEN NameSet(incompatible_arguments) ELSE None])

(* ------------------------------- logger -------------------------------- *)

\* The ancestors of path c: its prefixes that end before a slash.
Ancestors(c) == {SubSeq(c, 1, i - 1) : i \in {j \in Slashes(c) : j > 1}}

\* The log file's name: the UTC time stamp, then f'.{edr}.log'.
log_file_name(e, now) == Str(now.chars \o <<".">> \o e.chars \o <<".", "l", "o", "g">>)

\* The logger with the log file opened beside the log directory, not in it.
logger_beside(e, logs_dir, now, f) ==
    IF logs_dir = None THEN [res |-> Raise("TypeError"), fs |-> f]
    ELSE IF logs_dir.chars = <<>> THEN [res |-> Raise("FileNotFoundError"), fs |-> f]
    ELSE IF logs_dir.chars \in f.files THEN [res |-> Raise("FileExistsError"), fs |-> f]
    ELSE IF Ancestors(logs_dir.chars) \cap f.files # {} THEN
        [res |-> Raise("NotADirectoryError"), fs |-> f]
    ELSE LET path == log_file_name(e, now).chars
         IN  [res |-> Return(Str(path)),
              fs |-> [f EXCEPT
                  !.dirs = @ \cup Ancestors(logs_dir.chars) \cup {logs_dir.chars},
                  !.files = @ \cup {path},
                  !.text = [x \in DOMAIN f.text \cup {path} |->
                               IF x \in DOMAIN f.text THEN f.text[x] ELSE <<>>]]]

\* logger(edr, logs_dir) at time now on filesystem f: os.makedirs(logs_dir,
\* exist_ok=True), then a FileHandler that opens the log file for appending.
\* Returns the path the handler writes to.
logger(e, logs_dir, now, f) ==
    IF logs_dir = None THEN [res |-> Raise("TypeError"), fs |-> f]
    ELSE IF logs_dir.chars = <<>> THEN [res |-> Raise("FileNotFoundError"), fs |-> f]
    ELSE IF logs_dir.chars \in f.files THEN [res |-> Raise("FileExistsError"), fs |-> f]
    ELSE IF Ancestors(logs_dir.chars) \cap f.files # {} THEN
        [res |-> Raise("NotADirectoryError"), fs |-> f]
    ELSE LET path == join(logs_dir, log_file_name(e, now)).chars
         IN  [res |-> Return(Str(path)),
              fs |-> [f EXCEPT
                  !.dirs = @ \cup Ancestors(logs_dir.chars) \cup {logs_dir.chars},
                  !.files = @ \cup {path},
                  !.text = [x \in DOMAIN f.text \cup {path} |->
                               IF x \in DOMAIN f.text THEN f.text[x] ELSE <<>>]]]

\* log.debug(message) through the file handler: the message and a newline are
\* appended to the log file (the record's time, level and position prefix is
\* left out).
log_debug(log, message, f) ==
    [f EXCEPT !.text[log.chars] = @ \o message.chars \o <<"\n">>]

(* ----------------------------- build_survey ---------------------------- *)

csv == Str(<<"c", "s", "v">>)

survey_payload ==
    [prefix |-> None, days |-> None, minutes |-> None, limit |-> None,
     hostname |-> None, username |-> None, query |-> None, output |-> None,
     no_file |-> Bool(TRUE), no_progress |-> Bool(FALSE), log_dir |-> None,
     log |-> None, ioc_list |-> None, ioc_source |-> None, ioc_type |-> None,
     definitions |-> None, sigma_rules |-> None, products_args |-> None,
     output_format |-> csv]

\* Lines 168-170: an option that is not None replaces the template's value;
\* for a None option the key is popped and put back with the value it had.
copy_options(a) ==
    [k \in DOMAIN survey_payload |->
        IF k \in DOMAIN a /\ a[k] # None THEN a[k] ELSE survey_payload[k]]

\* Lines 172-194: the first check that fails ends the call.
option_checks(a, e, f) ==
    IF Truthy(a.iocfile) /\ a.ioctype = None THEN
        Exit("--iocfile requires --ioctype")
    ELSE IF Truthy(a.iocfile) /\ "ioc_file" \notin DOMAIN a THEN
        Raise("AttributeError")
    ELSE IF Truthy(a.iocfile) /\ ~isfile(f, a.ioc_file) THEN
        Exit("Supplied --iocfile is not a file")
    ELSE IF (Truthy(a.output) \/ Truthy(a.prefix)) /\ Truthy(a.no_file) THEN
        Exit("--output and --prefix cannot be used with --no-file")
    ELSE IF Truthy(a.days) /\ Truthy(a.minutes) THEN
        Exit("--days and --minutes are mutually exclusive")
    ELSE IF (Truthy(a.sigmarule) \/ Truthy(a.sigmadir)) /\ e = cortex THEN
        Exit("Neither --sigmarule nor --sigmadir are supported by product \"cortex\"")
    ELSE IF (Truthy(a.sigmarule) \/ Truthy(a.sigmadir)) /\ e = s1 /\ ~Truthy(a.dv) THEN
        Exit("Neither --sigmarule nor --sigmadir are supported by SentinelOne PowerQuery")
    ELSE IF Truthy(a.sigmarule) /\ ~isfile(f, a.sigmarule) THEN
        Exit("Supplied --sigmarule is not a file")
    ELSE IF Truthy(a.sigmadir) /\ ~isdir(f, a.sigmadir) THEN
        Exit("Supplied --sigmadir is not a directory")
    ELSE Return(None)

dot_json == Str(<<".", "j", "s", "o", "n">>)

dot_yml == Str(<<".", "y", "m", "l">>)

\* Lines 206-208: the definition file's path in the repository.
repo_deffile(a) ==
    LET r == join(join(InstallDir, Str(<<"d", "e", "f", "i", "n", "i", "t", "i", "o", "n", "s">>)), a.deffile)
    IN  IF endswith(r, dot_json) THEN r ELSE Str(r.chars \o dot_json.chars)

\* Lines 204-225: the definition file and directory.  The list of definition
\* files they fill is never put into the payload.
resolve_definitions(a, log, f) ==
    IF Truthy(a.deffile) /\ ~exists(f, a.deffile) /\ ~isfile(f, repo_deffile(a)) THEN
        [res |-> Exit("The deffile doesn't exist. Please try again."), fs |-> f, args |-> a]
    ELSE LET found == Truthy(a.deffile) /\ ~exists(f, a.deffile)
             a2 == IF found THEN [a EXCEPT !.deffile = repo_deffile(a)] ELSE a
             f2 == IF found
                   THEN log_debug(log, Str(<<"U", "s", "i", "n", "g", " ", "r", "e", "p", "o", " ", "d", "e", "f", "i", "n", "i", "t", "i", "o", "n", " ", "f", "i", "l", "e", " ">> \o repo_deffile(a).chars), f)
                   ELSE f
         IN  IF Truthy(a.defdir) /\ ~exists(f2, a.defdir) THEN
                 [res |-> Exit("The defdir doesn't exist. Please try again."),
                  fs |-> f2, args |-> a2]
             ELSE [res |-> Return(None), fs |-> f2, args |-> a2]

\* Lines 229-238: the rule file, then the .yml files under the rule directory.
sigma_rules(a, f) ==
    (IF Truthy(a.sigmarule) THEN <<a.sigmarule>> ELSE <<>>)
    \o (IF Truthy(a.sigmadir) THEN walk_files(os_walk(f, a.sigmadir), dot_yml) ELSE <<>>)

\* Lines 242-255: the IOC file, the product arguments and the final filter.
assemble(a, payload, f) ==
    LET rules == sigma_rules(a, f)
        p1 == IF rules # <<>> THEN SetItem(payload, "sigma_rules", List(rules)) ELSE payload
    IN  IF Truthy(a.iocfile) /\ ~isfile(f, a.iocfile) THEN
            Raise(IF isdir(f, a.iocfile) THEN "IsADirectoryError" ELSE "FileNotFoundError")
        ELSE LET data == IF Truthy(a.iocfile) THEN readlines(f.text[a.iocfile.chars]) ELSE <<>>
                 ioc_list == [i \in 1..Len(data) |-> strip(data[i])]
                 p2 == IF Truthy(a.iocfile)
                       THEN Update(p1, [ioc_source |-> basename(a.iocfile),
                                        ioc_list |-> List(ioc_list),
                                        ioc_type |-> a.ioctype])
                       ELSE p1
                 p3 == SetItem(p2, "product_args", product_arg_builder(a).value)
             IN  Return(Dict(DropNone(p3)))

\* build_survey(args, edr) at time now on filesystem f: how the call ends,
\* the filesystem it leaves and the options object as it leaves it.
build_survey(a, e, f, now) ==
    LET payload == copy_options(a)
        checked == option_checks(a, e, f)
    IN  IF checked.kind # "return" THEN [res |-> checked, fs |-> f, args |-> a]
        ELSE LET log == logger(a.edr, a.log_dir, now, f)
             IN  IF log.res.kind # "return" THEN [res |-> log.res, fs |-> f, args |-> a]
                 ELSE LET defs == resolve_definitions(a, log.res.value, log.fs)
                      IN  IF defs.res.kind # "return" THEN defs
                          ELSE [res |-> assemble(defs.args, payload, defs.fs),
                                fs |-> defs.fs, args |-> defs.args]

OneGroup == List(<<Str(<<"g">>)>>)

policy == Str(<<"p", "o", "l">>)

\* The raw product flags product_arg_builder reads.
ProductArgs ==
    { [DefaultArgs EXCEPT !.edr = e, !.device_group = dg, !.device_policy = dp,
                          !.sensor_group = sg, !.dv = dv] :
        e \in EdrIds, dg \in {None, List(<<>>), OneGroup},
        dp \in {None, Str(<<>>), policy}, sg \in {None, List(<<>>), OneGroup},
        dv \in {None, Bool(FALSE), Bool(TRUE)} }

ProductArgNames ==
    {"device_group", "device_policy", "sensor_group", "deep_visibility", "verbose"}

\* The product-argument mappings a caller can hand to the check.
ProductMappings ==
    { [k \in K |-> IF k \in {"device_group", "sensor_group"} THEN OneGroup
                   ELSE IF k = "device_policy" THEN policy ELSE Bool(TRUE)] :
        K \in SUBSET ProductArgNames }

\* The values a caller can give the raw options of build_survey, apart from
\* each option's default: for each option the code looks at, one value for
\* each way the code can go on it.  The number is the option's place in the
\* order the sets below are built in.
OptionValues ==
    {<<1, "edr", cortex>>, <<1, "edr", dfe>>, <<1, "edr", s1>>,
     <<2, "iocfile", ioc_path>>, <<2, "iocfile", nil_path>>, <<2, "iocfile", no_path>>,
     <<3, "ioctype", Str(<<"i", "p">>)>>,
     <<4, "ioc_file", ioc_path>>, <<4, "ioc_file", no_path>>,
     <<5, "output", Str(<<"o", ".", "c", "s", "v">>)>>,
     <<6, "no_file", Bool(TRUE)>>,
     <<7, "days", PyInt(7)>>, <<8, "minutes", PyInt(30)>>,
     <<9, "sigmarule", rule_path>>, <<9, "sigmarule", no_path>>,
     <<10, "sigmadir", sig_dir>>, <<10, "sigmadir", no_path>>,
     <<11, "dv", Bool(TRUE)>>,
     <<12, "log_dir", None>>, <<12, "log_dir", ioc_path>>,
     <<13, "deffile", def_path>>, <<13, "deffile", Str(<<"w", "i", "n">>)>>,
     <<13, "deffile", no_path>>,
     <<14, "defdir", defs_dir>>, <<14, "defdir", no_path>>,
     <<15, "device_group", OneGroup>>, <<16, "sensor_group", OneGroup>>,
     <<17, "hostname", Str(<<"h">>)>>, <<17, "hostname", Str(<<>>)>>}

\* The sets of at most n option values, no option given twice: each set is
\* built once, its options taken in order.
RECURSIVE OptionSets(_)
OptionSets(n) ==
    IF n = 0 THEN {{}}
    ELSE LET prev == OptionSets(n - 1)
         IN  prev \cup
             { c[1] \cup {c[2]} :
                 c \in {x \in prev \X OptionValues :
                           \A o \in x[1] : o[1] < x[2][1]} }

\* The options a with the values of S set.
WithOptions(a, S) ==
    [k \in DOMAIN a \cup {o[2] : o \in S} |->
        IF \E o \in S : o[2] = k THEN (CHOOSE o \in S : o[2] = k)[3] ELSE a[k]]

\* The time stamps the clock can give a log file.
Stamps == {Str(<<"0", "1">>), Str(<<"0", "2">>)}

(* ------------------------------- actions ------------------------------- *)

Started == [op |-> "none", after |-> "none", res |-> Return(None)]

\* The process is alive: no call has ended it.
Running == out.res.kind = "return"

\* creds = credential_builder(args)
CredentialBuilder ==
    /\ Running
    /\ out' = [op |-> "credential_builder", after |-> out.op,
               res |-> credential_builder(args)]
    /\ creds' = IF out'.res.kind = "return" /\ out'.res.value.type = "dict"
                THEN out'.res.value.d ELSE creds
    /\ UNCHANGED <<args, edr, product_args, fs>>

\* check_credentials_structure(edr, creds)
CheckCredentialsStructure ==
    /\ Running
    /\ out' = [op |-> "check_credentials_structure", after |-> out.op,
               res |-> check_credentials_structure(edr, creds)]
    /\ UNCHANGED <<args, edr, creds, product_args, fs>>

\* The credential pipeline: the builder on raw options and the check on its
\* output for the same backend, or the check on a mapping the caller made.
InitCreds ==
    /\ \/ /\ args \in CredentialArgs
          /\ edr = args.edr
          /\ creds = EmptyDict
       \/ /\ args = DefaultArgs
          /\ edr \in EdrIds
          /\ creds \in CredentialMappings
    /\ product_args = EmptyDict
    /\ fs = InitialFs
    /\ out = Started

NextCreds == CredentialBuilder \/ CheckCredentialsStructure

SpecCreds == InitCreds /\ [][NextCreds]_vars

\* product_args = product_arg_builder(args)
ProductArgBuilder ==
    /\ Running
    /\ out' = [op |-> "product_arg_builder", after |-> out.op,
               res |-> product_arg_builder(args)]
    /\ product_args' = out'.res.value.d
    /\ UNCHANGED <<args, edr, creds, fs>>

\* check_product_args_structure(edr, product_args)
CheckProductArgsStructure ==
    /\ Running
    /\ out' = [op |-> "check_product_args_structure", after |-> out.op,
               res |-> check_product_args_structure(edr, product_args)]
    /\ UNCHANGED <<args, edr, creds, product_args, fs>>

\* The product-argument pipeline: the builder on raw flags and the check on
\* its output for the same backend, or the check on a mapping the caller made.
InitProduct ==
    /\ \/ /\ args \in ProductArgs
          /\ edr = args.edr
          /\ product_args = EmptyDict
       \/ /\ args = DefaultArgs
          /\ edr \in EdrIds
          /\ product_args \in ProductMappings
    /\ creds = EmptyDict
    /\ fs = InitialFs
    /\ out = Started

NextProduct == ProductArgBuilder \/ CheckProductArgsStructure

SpecProduct == InitProduct /\ [][NextProduct]_vars

\* build_survey(args, edr), the first call of the process
BuildSurvey ==
    /\ out = Started
    /\ \E now \in Stamps :
         LET r == build_survey(args, edr, fs, now)
         IN  /\ out' = [op |-> "build_survey", after |-> out.op, res |-> r.res]
             /\ fs' = r.fs
             /\ args' = r.args
    /\ UNCHANGED <<edr, creds, product_args>>

\* The survey builder on the options of one command line, for the backend
\* the options name.
InitSurvey ==
    /\ \E S \in OptionSets(MaxOptions) : args = WithOptions(DefaultArgs, S)
    /\ edr = args.edr
    /\ creds = EmptyDict
    /\ product_args = EmptyDict
    /\ fs \in {InitialFs, InitialFsWithLogs}
    /\ out = Started

NextSurvey == BuildSurvey

SpecSurvey == InitSurvey /\ [][NextSurvey]_vars

(* ------------------------------- claims -------------------------------- *)

\* Field k of mapping c is present and not empty.
NonEmpty(c, k) == k \in DOMAIN c /\ Truthy(c[k])

\* C1: for every backend id outside the registry and every credential
\* mapping, one holding a non-empty creds_file and profile included,
\* check_credentials_structure returns result false, required_fields None
\* and a label saying the backend is not supported.
C1_UnknownBackendUnsupported ==
    (out.op = "check_credentials_structure" /\ edr \notin Registered) =>
        out.res = Return(CheckResult(FALSE, NotSupported(edr), None))

\* The product argument names the registry declares for backend e.
DeclaredProductArgs(e) ==
    IF e \in Registered /\ EDR_DEETS[e].product_arguments # None
    THEN SetOf(EDR_DEETS[e].product_arguments.names) ELSE {}

\* C2: every key of the mapping product_arg_builder returns is a product
\* argument name the registry declares for the options' backend, and every
\* value is non-empty; another backend's flag never gets into the mapping.
C2_OnlyDeclaredProductArgs ==
    out.op = "product_arg_builder" =>
        /\ out.res.kind = "return"
        /\ \A k \in DOMAIN out.res.value.d :
              k \in DeclaredProductArgs(args.edr) /\ Truthy(out.res.value.d[k])

\* C3: for every backend of the registry and every product-argument mapping,
\* the builder's own output included, check_product_args_structure returns a
\* result record and never raises.
C3_ProductCheckNeverRaises ==
    (out.op = "check_product_args_structure" /\ edr \in Registered) =>
        out.res.kind = "return"

\* None, the empty string, the empty list and the empty mapping.
IsEmptyValue(v) ==
    \/ v = None
    \/ v = Str(<<>>)
    \/ v = Text("")
    \/ v = List(<<>>)
    \/ v = Dict(EmptyDict)

\* C4: a specification build_survey returns holds no key whose value is
\* absent or empty: product_args is left out when no product flag was given,
\* ioc_list is left out when the IOC file has no lines.
C4_NoEmptyValues ==
    (out.op = "build_survey" /\ out.res.kind = "return") =>
        \A k \in DOMAIN out.res.value.d : ~IsEmptyValue(out.res.value.d[k])

\* C5: whenever both the day window and the minute window are set, whatever
\* the other options and the backend, build_survey ends in the fatal exit
\* with a message and returns no specification.
C5_BothWindowsFatal ==
    (out.op = "build_survey" /\ Truthy(args.days) /\ Truthy(args.minutes)) =>
        out.res.kind = "exit" /\ out.res.msg # ""

\* y is x in lower case.
IsLowerOf(y, x) ==
    /\ Len(y.chars) = Len(x.chars)
    /\ \A i \in 1..Len(y.chars) :
          /\ \A j \in 1..Len(UpperCase) : y.chars[i] # UpperCase[j]
          /\ \/ y.chars[i] = x.chars[i]
             \/ \E j \in 1..Len(UpperCase) :
                   x.chars[i] = UpperCase[j] /\ y.chars[i] = LowerCase[j]

\* The list option x as credential_builder merges it: x when supplied, the
\* empty list otherwise.
Merged(x) == IF Truthy(x) THEN x ELSE List(<<>>)

\* C6: for cortex, dfe and s1, credential_builder ends the process with a
\* message whenever the credentials file or the profile is missing, and
\* otherwise returns a mapping with exactly the supplied profile and
\* creds_file (auth_type in lower case, the id lists merged when supplied);
\* for cbc and cbr it always returns a mapping whose profile is the supplied
\* profile or "default".
C6_CredentialBuilder ==
    out.op = "credential_builder" =>
        /\ args.edr \in {cortex, dfe, s1} =>
              IF ~Truthy(args.creds) \/ ~Truthy(args.profile)
              THEN out.res.kind = "exit" /\ out.res.msg # ""
              ELSE /\ out.res.kind = "return"
                   /\ out.res.value.type = "dict"
                   /\ out.res.value.d.profile = args.profile
                   /\ out.res.value.d.creds_file = args.creds
                   /\ args.edr = cortex =>
                         /\ IF Truthy(args.auth_type)
                            THEN IsLowerOf(out.res.value.d.auth_type, args.auth_type)
                            ELSE out.res.value.d.auth_type = standard
                         /\ out.res.value.d.tenant_ids = Merged(args.tenant_ids)
                   /\ args.edr = s1 =>
                         /\ out.res.value.d.site_ids = Merged(args.site_ids)
                         /\ out.res.value.d.account_ids = Merged(args.account_ids)
                         /\ out.res.value.d.account_names = Merged(args.account_names)
        /\ args.edr \in {cbc, cbr} =>
              /\ out.res.kind = "return"
              /\ out.res.value.type = "dict"
              /\ out.res.value.d.profile =
                    IF Truthy(args.profile) THEN args.profile ELSE default

\* C6's case: cortex with file, profile, an auth type in mixed case and
\* tenant ids, built.
C6_Witness ==
    /\ out.op = "credential_builder"
    /\ args.edr = cortex
    /\ out.res.kind = "return"
    /\ args.auth_type = Advanced
    /\ Truthy(args.tenant_ids)

\* C7: for every backend of the registry, a credential mapping with a
\* non-empty creds_file and a non-empty profile passes the check whatever
\* else it holds; for cbc and cbr a non-empty creds_file alone passes.
C7_FileAndProfilePass ==
    (out.op = "check_credentials_structure" /\ edr \in Registered) =>
        /\ (NonEmpty(creds, "creds_file") /\ NonEmpty(creds, "profile")) =>
              out.res.kind = "return" /\ out.res.value.result = TRUE
        /\ (edr \in {cbc, cbr} /\ NonEmpty(creds, "creds_file")) =>
              out.res.kind = "return" /\ out.res.value.result = TRUE

\* C7's case: cbr checked on a mapping that holds a creds_file, no profile
\* and a further field.
C7_Witness ==
    /\ out.op = "check_credentials_structure"
    /\ edr = cbr
    /\ NonEmpty(creds, "creds_file")
    /\ "profile" \notin DOMAIN creds
    /\ Cardinality(DOMAIN creds) > 1
    /\ out.res.value.result = TRUE

\* The paths of the log files build_survey's logger can open for options a.
LogFiles(a) ==
    IF a.log_dir = None THEN {}
    ELSE {join(a.log_dir, log_file_name(a.edr, now)).chars : now \in Stamps}

\* The directories the logger can make for options a.
LogDirs(a) ==
    IF a.log_dir = None THEN {}
    ELSE {a.log_dir.chars} \cup Ancestors(a.log_dir.chars)

\* The messages of the option checks' fatal exits.
OptionCheckMessages ==
    {"--iocfile requires --ioctype",
     "Supplied --iocfile is not a file",
     "--output and --prefix cannot be used with --no-file",
     "--days and --minutes are mutually exclusive",
     "Neither --sigmarule nor --sigmadir are supported by product \"cortex\"",
     "Neither --sigmarule nor --sigmadir are supported by SentinelOne PowerQuery",
     "Supplied --sigmarule is not a file",
     "Supplied --sigmadir is not a directory"}

\* C8, as the spec states it: no call of build_survey, returning or ending
\* in fatal termination, creates or writes a file or directory.
C8_NoFilesystemChange ==
    [][out'.op = "build_survey" => fs' = fs]_vars

\* C8, amended: build_survey writes through its logger only.  A call that
\* ends in one of the option checks' fatal exits leaves the filesystem as it
\* was; a call that returns a specification has made the log directory and
\* opened the log file <log_dir>/<time stamp>.<edr>.log in it; and no call
\* creates, removes or changes any other file or directory.
C8_OnlyLogWritten ==
    [][out'.op = "build_survey" =>
        /\ (out'.res.kind = "exit" /\ out'.res.msg \in OptionCheckMessages) => fs' = fs
        /\ out'.res.kind = "return" =>
              /\ args.log_dir.chars \in fs'.dirs
              /\ LogFiles(args) \cap fs'.files # {}
        /\ fs.dirs \subseteq fs'.dirs
        /\ fs'.dirs \ fs.dirs \subseteq LogDirs(args)
        /\ fs.files \subseteq fs'.files
        /\ fs'.files \ fs.files \subseteq LogFiles(args)
        /\ \A x \in fs.files \ LogFiles(args) : fs'.text[x] = fs.text[x]
        /\ fs'.walk = fs.walk]_vars

\* C8's case: a specification was returned, and the log directory and a log
\* file in it exist.
C8_Witness ==
    /\ out.op = "build_survey"
    /\ out.res.kind = "return"
    /\ logs.chars \in fs.dirs
    /\ LogFiles(args) \cap fs.files # {}

\* C9: with an IOC file path and an IOC type supplied, build_survey ends in
\* the 'not a file' exit when the path is no existing file, and a
\* specification it returns holds the file's lines, trimmed and in order, as
\* ioc_list, the file's base name as ioc_source and the type as ioc_type.
C9_IocFile ==
    (out.op = "build_survey" /\ Truthy(args.iocfile) /\ args.ioctype # None) =>
        IF ~isfile(fs, args.iocfile)
        THEN out.res = Exit("Supplied --iocfile is not a file")
        ELSE out.res.kind = "return" =>
                LET lines == readlines(fs.text[args.iocfile.chars])
                IN  /\ out.res.value.d.ioc_list =
                          List([i \in 1..Len(lines) |-> strip(lines[i])])
                    /\ out.res.value.d.ioc_source = basename(args.iocfile)
                    /\ out.res.value.d.ioc_type = args.ioctype

\* C10: checked for the same backend, credential_builder's own output fails
\* check_credentials_structure for cbc and cbr, where profile is its only
\* key, and passes it for cortex, dfe and s1.
C10_BuilderOutputChecked ==
    (/\ out.op = "check_credentials_structure"
     /\ out.after = "credential_builder"
     /\ edr = args.edr) =>
        /\ edr \in {cbc, cbr} =>
              /\ DOMAIN creds = {"profile"}
              /\ out.res.kind = "return" /\ out.res.value.result = FALSE
        /\ edr \in {cortex, dfe, s1} =>
              out.res.kind = "return" /\ out.res.value.result = TRUE

\* C10's case: cbc with a credentials file supplied, built and then checked.
C10_Witness ==
    /\ out.op = "check_credentials_structure"
    /\ out.after = "credential_builder"
    /\ edr = cbc
    /\ args.edr = cbc
    /\ Truthy(args.creds)
    /\ out.res.value.result = FALSE

====
